---- MODULE Spec2Model ----
(***************************************************************************)
(* Application Secret Tree (src/src/astree.rs): the lazily expanded tree   *)
(* of node secrets (ASTree) and the per-sender ratchets (SenderRatchet).   *)
(*                                                                         *)
(* Secrets are symbolic: HKDF-Expand-Label is an injective function of     *)
(* (secret, label, node, generation), so a secret is the list of the       *)
(* derivation steps that lead to it from the application secret.           *)
(* u32 values are kept at their width, as two 16-bit limbs <<hi, lo>>.     *)
(***************************************************************************)
EXTENDS Integers, Sequences, FiniteSets, TLC

(* ------------------------------ bounds -------------------------------- *)

\* Trees of 1..MaxSize leaves are constructed.
MaxSize == 3

\* The small generations 0..MaxGen are requested (besides the boundary ones).
MaxGen == 2

\* At most MaxCalls calls of get_secret are made on one tree.
MaxCalls == 3

(* --------------------------- program constants ------------------------ *)

OUT_OF_ORDER_TOLERANCE == 5

MAXIMUM_FORWARD_DISTANCE == 1000

(* ------------------------------- u32 ---------------------------------- *)

\* A u32 is <<hi, lo>>, its value hi * Limb + lo, both limbs in 0..Limb-1.
Limb == 65536

U32(n) == <<n \div Limb, n % Limb>>

U32Max == <<Limb - 1, Limb - 1>>

U32Lt(a, b) == a[1] < b[1] \/ (a[1] = b[1] /\ a[2] < b[2])

U32Le(a, b) == a = b \/ U32Lt(a, b)

\* a + b in u32 arithmetic: the wrapped sum, and whether the true sum left
\* the u32 range.
U32Add(a, b) ==
    LET lo == a[2] + b[2]
        hi == a[1] + b[1] + (lo \div Limb)
    IN  [value |-> <<hi % Limb, lo % Limb>>, overflow |-> hi >= Limb]

\* a - b in u32 arithmetic, for b <= a.
U32Sub(a, b) ==
    IF a[2] >= b[2] THEN <<a[1] - b[1], a[2] - b[2]>>
    ELSE <<a[1] - b[1] - 1, a[2] + Limb - b[2]>>

\* The value of a u32 below 2^31 as a number.
U32Nat(a) == a[1] * Limb + a[2]

(* ------------------------------ Option -------------------------------- *)

None == <<>>

Some(x) == <<x>>

IsSome(o) == o # <<>>

Unwrap(o) == o[1]

(* ------------------------------ secrets ------------------------------- *)

\* The application secret the tree is constructed with.
application_secret == <<>>

\* hkdf_expand_label(secret, label, ApplicationContext{node, generation}):
\* the secret's derivation steps followed by this one.  A step is
\* <<label, node, generation, n>>: the same derivation applied n times in a
\* row (a ratchet advance repeats one step up to 1000 times).
derive_app_secret(secret, label, node, generation) ==
    LET n == Len(secret)
    IN  IF n > 0 /\ secret[n][1] = label /\ secret[n][2] = node
                 /\ secret[n][3] = generation
        THEN [secret EXCEPT ![n][4] = @ + 1]
        ELSE Append(secret, <<label, node, generation, 1>>)

(* ----------------------------- treemath ------------------------------- *)
(* crate::treemath is not part of the source at hand: the array layout of *)
(* a left-balanced binary tree (leaves at the even indices) is used.      *)

RECURSIVE log2(_)
log2(x) == IF x <= 1 THEN 0 ELSE 1 + log2(x \div 2)

RECURSIVE pow2(_)
pow2(k) == IF k = 0 THEN 1 ELSE 2 * pow2(k - 1)

\* RosterIndex -> TreeIndex.
TreeIndexFrom(index) == 2 * index

node_width(n) == 2 * (n - 1) + 1

root(n) == pow2(log2(node_width(n))) - 1

RECURSIVE level(_)
level(x) == IF x % 2 = 0 THEN 0 ELSE 1 + level(x \div 2)

left(x) == x - pow2(level(x) - 1)

RECURSIVE clamp_left(_, _)
clamp_left(r, n) == IF r >= node_width(n) THEN clamp_left(left(r), n) ELSE r

right(x, n) == clamp_left(x + pow2(level(x) - 1), n)

parent_step(x) ==
    LET k == level(x)
    IN  IF (x \div pow2(k + 1)) % 2 = 1 THEN x - pow2(k) ELSE x + pow2(k)

RECURSIVE clamp_parent(_, _)
clamp_parent(p, n) ==
    IF p >= node_width(n) THEN clamp_parent(parent_step(p), n) ELSE p

parent(x, n) == clamp_parent(parent_step(x), n)

\* The ancestors of x from just above it up to, but excluding, the root.
RECURSIVE dirpath_from(_, _)
dirpath_from(p, n) ==
    IF p = root(n) THEN <<>> ELSE <<p>> \o dirpath_from(parent(p, n), n)

dirpath(x, n) == IF x = root(n) THEN <<>> ELSE dirpath_from(parent(x, n), n)

(* --------------------------- SenderRatchet ---------------------------- *)

\* The result of a call: Ok with the ApplicationSecrets, an ASError, or a
\* panic of the Rust runtime.
Ok(secrets) == [kind |-> "Ok", key |-> secrets.key, nonce |-> secrets.nonce]

Err(e) == [kind |-> e, key |-> <<>>, nonce |-> <<>>]

Panic == Err("Panic")

SenderRatchetNew(index, secret) ==
    [index |-> index, generation |-> U32(0), past_secrets |-> <<secret>>]

\* Mutant of ratchet_secret: the context is the next generation.
ratchet_secret_NextGeneration(self, secret) ==
    derive_app_secret(secret, "app-secret", self.index,
                      U32Add(self.generation, U32(1)).value)

ratchet_secret(self, secret) ==
    derive_app_secret(secret, "app-secret", self.index, self.generation)

derive_key_nonce(self, secret, generation) ==
    [nonce |-> derive_app_secret(secret, "app-nonce", self.index, generation),
     key |-> derive_app_secret(secret, "app-key", self.index, generation)]

\* Mutant of ratchet_step: the oldest secret is dropped one step early.
ratchet_step_DropsEarly(self, past_secrets) ==
    LET kept == IF Len(past_secrets) >= OUT_OF_ORDER_TOLERANCE - 1
                THEN Tail(past_secrets) ELSE past_secrets
    IN  Append(kept, ratchet_secret(self, past_secrets[Len(past_secrets)]))

\* Mutant of ratchet_step: the oldest secret is not dropped.
ratchet_step_NoDrop(self, past_secrets) ==
    Append(past_secrets,
           ratchet_secret(self, past_secrets[Len(past_secrets)]))

\* One iteration of the loop of the advance branch: the oldest secret is
\* dropped from a full window, and the next chain secret is derived from the
\* last one and pushed.
ratchet_step(self, past_secrets) ==
    LET kept == IF Len(past_secrets) = OUT_OF_ORDER_TOLERANCE
                THEN Tail(past_secrets) ELSE past_secrets
        new_secret == ratchet_secret(self, kept[Len(kept)])
    IN  Append(kept, new_secret)

\* The loop, n iterations (the first half of them, then the rest, so that
\* the evaluation nests only log n deep): self.generation is not changed by
\* it.
RECURSIVE ratchet_forward(_, _, _)
ratchet_forward(self, past_secrets, n) ==
    IF n = 0 THEN past_secrets
    ELSE IF n = 1 THEN ratchet_step(self, past_secrets)
    ELSE LET half == ratchet_forward(self, past_secrets, n \div 2)
         IN  IF Len(half) = 0 THEN half
             ELSE ratchet_forward(self, half, n - (n \div 2))

\* Mutant of RatchetError: the ratchet moves to the generation asked for.
RatchetError_Moves(self, generation, e) ==
    [ratchet |-> [self EXCEPT !.generation = generation], ret |-> Err(e)]

\* return Err(e), from the call for `generation`: the ratchet is left as it
\* is.
RatchetError(self, generation, e) == [ratchet |-> self, ret |-> Err(e)]

\* self.generation + MAXIMUM_FORWARD_DISTANCE, in u32.
ForwardLimit(self) ==
    U32Add(self.generation, U32(MAXIMUM_FORWARD_DISTANCE))

\* Mutant of TooDistantInTheFuture: the limit is one generation too far.
TooDistantInTheFuture_OneMore(self, generation) ==
    U32Lt(U32Add(ForwardLimit(self).value, U32(1)).value, generation)

\* Mutant of TooDistantInTheFuture: >= for >.
TooDistantInTheFuture_AtLimit(self, generation) ==
    U32Le(ForwardLimit(self).value, generation)

\* generation > self.generation + MAXIMUM_FORWARD_DISTANCE, the sum wrapped.
TooDistantInTheFuture(self, generation) ==
    U32Lt(ForwardLimit(self).value, generation)

\* generation < self.generation
\*   && (self.generation - generation) >= OUT_OF_ORDER_TOLERANCE
TooDistantInThePast(self, generation) ==
    /\ U32Lt(generation, self.generation)
    /\ U32Le(U32(OUT_OF_ORDER_TOLERANCE), U32Sub(self.generation, generation))

\* Mutant of WindowLookup: self.generation is set to the generation asked
\* for.
WindowLookup_Rewinds(self, generation) ==
    LET window_index == Len(self.past_secrets)
                          - U32Nat(U32Sub(self.generation, generation)) - 1
    IN  IF window_index < 0 THEN [ratchet |-> self, ret |-> Panic]
        ELSE [ratchet |-> [self EXCEPT !.generation = generation],
              ret |-> Ok(derive_key_nonce(
                           self, self.past_secrets[window_index + 1],
                           generation))]

\* The branch generation <= self.generation: the secret is taken from the
\* window; get(window_index).unwrap() panics on an index outside of it.
WindowLookup(self, generation) ==
    LET window_index == Len(self.past_secrets)
                          - U32Nat(U32Sub(self.generation, generation)) - 1
    IN  IF window_index < 0 THEN [ratchet |-> self, ret |-> Panic]
        ELSE [ratchet |-> self,
              ret |-> Ok(derive_key_nonce(
                           self, self.past_secrets[window_index + 1],
                           generation))]

\* The branch generation > self.generation: the ratchet is advanced, the
\* key and nonce are derived from the last secret, and then self.generation
\* is set.
Advance(self, generation) ==
    LET past == ratchet_forward(self, self.past_secrets,
                                U32Nat(U32Sub(generation, self.generation)))
    IN  [ratchet |-> [self EXCEPT !.past_secrets = past,
                                  !.generation = generation],
         ret |-> Ok(derive_key_nonce(self, past[Len(past)], generation))]

\* SenderRatchet::get_secret: the ratchet after the call and what the call
\* returns.  checks: whether the build panics on integer overflow (the debug
\* profile) or wraps (the release profile).
RatchetGetSecret(self, generation, checks) ==
    IF ForwardLimit(self).overflow /\ checks
    THEN [ratchet |-> self, ret |-> Panic]
    ELSE IF TooDistantInTheFuture(self, generation)
    THEN RatchetError(self, generation, "TooDistantInTheFuture")
    ELSE IF TooDistantInThePast(self, generation)
    THEN RatchetError(self, generation, "TooDistantInThePast")
    ELSE IF U32Le(generation, self.generation)
    THEN WindowLookup(self, generation)
    ELSE Advance(self, generation)

(* ------------------------------- ASTree ------------------------------- *)

VARIABLES
    size,             \* ASTree.size
    nodes,            \* ASTree.nodes: TreeIndex -> Option<secret>
    sender_ratchets,  \* ASTree.sender_ratchets: RosterIndex -> Option<SenderRatchet>
    erased,           \* history: the node slots that went from live to erased
    written,          \* history: the node slots the last call assigned a secret
    ncalls            \* the number of get_secret calls made so far

vars == <<size, nodes, sender_ratchets, erased, written, ncalls>>

\* ASTree::new(ciphersuite, application_secret, size).
ASTreeNew(n) ==
    [size |-> n,
     nodes |-> [x \in 0 .. (TreeIndexFrom(n) - 1) - 1 |->
                   IF x = root(n) THEN Some(application_secret) ELSE None],
     sender_ratchets |-> [i \in 0 .. n - 1 |-> None]]

\* ASTree::get_generation.
get_generation(ratchets, sender) ==
    IF IsSome(ratchets[sender]) THEN Unwrap(ratchets[sender]).generation
    ELSE U32(0)

\* Mutant of hash_down: the right child is not assigned its secret.
hash_down_LeftOnly(tree_nodes, n, index_in_tree) ==
    IF ~IsSome(tree_nodes[index_in_tree])
    THEN [nodes |-> tree_nodes, panic |-> TRUE, written |-> {}]
    ELSE LET node_secret == Unwrap(tree_nodes[index_in_tree])
             left_index == left(index_in_tree)
             n1 == [tree_nodes EXCEPT ![left_index] = Some(
                      derive_app_secret(node_secret, "tree", left_index,
                                        U32(0)))]
         IN  [nodes |-> [n1 EXCEPT ![index_in_tree] = None],
              panic |-> FALSE,
              written |-> {left_index}]

\* Mutant of hash_down: the node is not erased.
hash_down_KeepsNode(tree_nodes, n, index_in_tree) ==
    IF ~IsSome(tree_nodes[index_in_tree])
    THEN [nodes |-> tree_nodes, panic |-> TRUE, written |-> {}]
    ELSE LET node_secret == Unwrap(tree_nodes[index_in_tree])
             left_index == left(index_in_tree)
             right_index == right(index_in_tree, n)
             n1 == [tree_nodes EXCEPT ![left_index] = Some(
                      derive_app_secret(node_secret, "tree", left_index,
                                        U32(0)))]
         IN  [nodes |-> [n1 EXCEPT ![right_index] = Some(
                           derive_app_secret(node_secret, "tree",
                                             right_index, U32(0)))],
              panic |-> FALSE,
              written |-> {left_index, right_index}]

\* Mutant of hash_down: the right child is derived with the context of the
\* left one.
hash_down_LeftContext(tree_nodes, n, index_in_tree) ==
    IF ~IsSome(tree_nodes[index_in_tree])
    THEN [nodes |-> tree_nodes, panic |-> TRUE, written |-> {}]
    ELSE LET node_secret == Unwrap(tree_nodes[index_in_tree])
             left_index == left(index_in_tree)
             right_index == right(index_in_tree, n)
             child_secret ==
                 derive_app_secret(node_secret, "tree", left_index, U32(0))
             n1 == [tree_nodes EXCEPT ![left_index] = Some(child_secret)]
             n2 == [n1 EXCEPT ![right_index] = Some(child_secret)]
         IN  [nodes |-> [n2 EXCEPT ![index_in_tree] = None],
              panic |-> FALSE,
              written |-> {left_index, right_index}]

\* ASTree::hash_down: the node's two children are derived from it and the
\* node is erased; unwrap() panics on an empty node.  written: the slots
\* assigned a secret.
hash_down(tree_nodes, n, index_in_tree) ==
    IF ~IsSome(tree_nodes[index_in_tree])
    THEN [nodes |-> tree_nodes, panic |-> TRUE, written |-> {}]
    ELSE LET node_secret == Unwrap(tree_nodes[index_in_tree])
             left_index == left(index_in_tree)
             right_index == right(index_in_tree, n)
             left_secret ==
                 derive_app_secret(node_secret, "tree", left_index, U32(0))
             right_secret ==
                 derive_app_secret(node_secret, "tree", right_index, U32(0))
             n1 == [tree_nodes EXCEPT ![left_index] = Some(left_secret)]
             n2 == [n1 EXCEPT ![right_index] = Some(right_secret)]
         IN  [nodes |-> [n2 EXCEPT ![index_in_tree] = None],
              panic |-> FALSE,
              written |-> {left_index, right_index}]

\* The scan of get_secret: the path's indices up to and including the first
\* live node (all of the path when none is live).
RECURSIVE scan_path(_, _)
scan_path(tree_nodes, dir_path) ==
    IF dir_path = <<>> THEN <<>>
    ELSE IF IsSome(tree_nodes[Head(dir_path)]) THEN <<Head(dir_path)>>
    ELSE <<Head(dir_path)>> \o scan_path(tree_nodes, Tail(dir_path))

Reverse(s) == [k \in 1 .. Len(s) |-> s[Len(s) + 1 - k]]

\* for n in empty_nodes { self.hash_down(n) }
RECURSIVE hash_down_all(_, _, _)
hash_down_all(tree_nodes, n, empty_nodes) ==
    IF empty_nodes = <<>>
    THEN [nodes |-> tree_nodes, panic |-> FALSE, written |-> {}]
    ELSE LET h == hash_down(tree_nodes, n, Head(empty_nodes))
             rest == hash_down_all(h.nodes, n, Tail(empty_nodes))
         IN  IF h.panic THEN h
             ELSE [rest EXCEPT !.written = h.written \cup @]

\* The leaf of a sender, its ancestors, and the root.
DirPath(n, index_in_tree) ==
    <<index_in_tree>> \o dirpath(index_in_tree, n) \o <<root(n)>>

\* Mutant of MaterializePath: the whole path is derived again from the
\* application secret at the root, whatever has been erased.
MaterializePath_FromRoot(tree_nodes, n, index_in_tree) ==
    LET ancestors == SelectSeq(Tail(DirPath(n, index_in_tree)),
                               LAMBDA x : x # index_in_tree)
    IN  IF ancestors = <<>>
        THEN [nodes |-> tree_nodes, panic |-> FALSE, written |-> {}]
        ELSE hash_down_all(
                 [tree_nodes EXCEPT ![root(n)] = Some(application_secret)],
                 n, Reverse(ancestors))

\* The path materialization of get_secret: from the nearest live node of
\* the leaf's path down to the leaf's parent, every node is hashed down.
MaterializePath(tree_nodes, n, index_in_tree) ==
    LET empty_nodes == scan_path(tree_nodes, DirPath(n, index_in_tree))
    IN  hash_down_all(tree_nodes, n, Reverse(Tail(empty_nodes)))

\* return Err(ASError::IndexOutOfBounds)
OutOfBounds(tree) ==
    [tree |-> tree, ret |-> Err("IndexOutOfBounds"), written |-> {}]

\* Mutant of FirstGetSecret: the leaf is not erased.
FirstGetSecret_KeepsLeaf(tree, index, generation, checks) ==
    LET index_in_tree == TreeIndexFrom(index)
        h == MaterializePath(tree.nodes, tree.size, index_in_tree)
        r == RatchetGetSecret(
                 SenderRatchetNew(index, Unwrap(h.nodes[index_in_tree])),
                 generation, checks)
    IN  IF h.panic \/ ~IsSome(h.nodes[index_in_tree])
        THEN [tree |-> [tree EXCEPT !.nodes = h.nodes], ret |-> Panic,
              written |-> h.written]
        ELSE IF r.ret = Panic
        THEN [tree |-> [tree EXCEPT !.nodes = h.nodes], ret |-> Panic,
              written |-> h.written]
        ELSE [tree |-> [tree EXCEPT
                          !.nodes = h.nodes,
                          !.sender_ratchets[index] = Some(r.ratchet)],
              ret |-> r.ret,
              written |-> h.written]

\* The first call for a sender: the path is materialized, the ratchet is
\* made from the leaf's secret and asked, the leaf is erased and the ratchet
\* installed.  A panic leaves the tree as it is at that moment.
FirstGetSecret(tree, index, generation, checks) ==
    LET index_in_tree == TreeIndexFrom(index)
        h == MaterializePath(tree.nodes, tree.size, index_in_tree)
        r == RatchetGetSecret(
                 SenderRatchetNew(index, Unwrap(h.nodes[index_in_tree])),
                 generation, checks)
    IN  IF h.panic \/ ~IsSome(h.nodes[index_in_tree])
        THEN [tree |-> [tree EXCEPT !.nodes = h.nodes], ret |-> Panic,
              written |-> h.written]
        ELSE IF r.ret = Panic
        THEN [tree |-> [tree EXCEPT !.nodes = h.nodes], ret |-> Panic,
              written |-> h.written]
        ELSE [tree |-> [tree EXCEPT
                          !.nodes = [h.nodes EXCEPT ![index_in_tree] = None],
                          !.sender_ratchets[index] = Some(r.ratchet)],
              ret |-> r.ret,
              written |-> h.written]

\* ASTree::get_secret for a sender of the roster: the sender's ratchet is
\* asked, or made first.
ServeSender(tree, index, generation, checks) ==
    IF IsSome(tree.sender_ratchets[index])
    THEN LET r == RatchetGetSecret(Unwrap(tree.sender_ratchets[index]),
                                   generation, checks)
         IN  [tree |-> [tree EXCEPT !.sender_ratchets[index] =
                                        Some(r.ratchet)],
              ret |-> r.ret,
              written |-> {}]
    ELSE FirstGetSecret(tree, index, generation, checks)

\* Mutant of TreeGetSecret: > for >= in the bounds check, so that the sender
\* just beyond the roster passes it and the call panics on the missing
\* slots.
TreeGetSecret_BoundOffByOne(tree, index, generation, checks) ==
    IF index > tree.size THEN OutOfBounds(tree)
    ELSE IF index = tree.size
    THEN [tree |-> tree, ret |-> Panic, written |-> {}]
    ELSE ServeSender(tree, index, generation, checks)

\* ASTree::get_secret: the tree after the call, what the call returns, and
\* the node slots the call assigned a secret to.
TreeGetSecret(tree, index, generation, checks) ==
    IF index >= tree.size THEN OutOfBounds(tree)
    ELSE ServeSender(tree, index, generation, checks)

\* The tree held by the variables.
Tree == [size |-> size, nodes |-> nodes, sender_ratchets |-> sender_ratchets]

(* ------------------------------ requests ------------------------------ *)

\* The senders asked for: every sender of the tree and the first beyond it.
Senders == 0 .. size

\* The generations asked of a sender: the small ones, those at the edges of
\* the sender's out-of-order window and of its forward distance, and the
\* last u32.
Generations(index) ==
    LET current == IF index < size THEN get_generation(sender_ratchets, index)
                   ELSE U32(0)
        back == {U32(d) : d \in {OUT_OF_ORDER_TOLERANCE - 1,
                                 OUT_OF_ORDER_TOLERANCE}}
        ahead == {U32Add(current, U32(d)) :
                    d \in {MAXIMUM_FORWARD_DISTANCE,
                           MAXIMUM_FORWARD_DISTANCE + 1}}
    IN  {U32(g) : g \in 0 .. MaxGen}
        \cup {U32Sub(current, b) : b \in {b \in back : U32Le(b, current)}}
        \cup {a.value : a \in {a \in ahead : ~a.overflow}}
        \cup {U32Max}

\* The build profiles that differ on a call for a sender: with integer
\* overflow checks the build panics where the other wraps.
Profiles(index) ==
    IF /\ index < size
       /\ U32Add(get_generation(sender_ratchets, index),
                 U32(MAXIMUM_FORWARD_DISTANCE)).overflow
    THEN BOOLEAN ELSE {FALSE}

(* --------------------------- specification ---------------------------- *)

\* The tree as constructed by ASTree::new.
Init ==
    /\ size \in 1 .. MaxSize
    /\ nodes = ASTreeNew(size).nodes
    /\ sender_ratchets = ASTreeNew(size).sender_ratchets
    /\ erased = {}
    /\ written = {}
    /\ ncalls = 0

\* One call astree.get_secret(index, generation), in a build with or
\* without overflow checks.
GetSecret(index, generation, checks) ==
    /\ ncalls < MaxCalls
    /\ \E r \in {TreeGetSecret(Tree, index, generation, checks)} :
           /\ nodes' = r.tree.nodes
           /\ sender_ratchets' = r.tree.sender_ratchets
           /\ written' = r.written
           /\ erased' = erased \cup
                  {x \in DOMAIN nodes :
                      /\ IsSome(nodes[x]) \/ x \in r.written
                      /\ ~IsSome(r.tree.nodes[x])}
    /\ ncalls' = ncalls + 1
    /\ UNCHANGED size

Next == \E index \in Senders :
            \E generation \in Generations(index), checks \in Profiles(index) :
                GetSecret(index, generation, checks)

Spec == Init /\ [][Next]_vars

(* ------------------- a tree late in a sender's life ------------------- *)

\* The generation from which one more advance reaches the last u32.
LateGeneration == U32Sub(U32Max, U32(MAXIMUM_FORWARD_DISTANCE))

\* The chain secret of a generation that many advances have led to.  The
\* contexts of those ratchet steps depend on the calls that were served, so
\* the steps are kept as one step of a label of its own.
ChainHistory(seed, index, generation) ==
    Append(seed, <<"app-secret-history", index, generation, 1>>)

\* The last generation whose forward limit is a u32, and the first whose
\* forward limit is not.
LateGenerations == {LateGeneration, U32Add(LateGeneration, U32(1)).value}

\* The tree after sender 0 has been served up to a late generation (more
\* than four million advancing calls): its leaf's path is erased and its
\* window holds the chain secrets of the last five generations.
InitLate ==
    /\ size \in 1 .. MaxSize
    /\ \E first \in {TreeGetSecret(ASTreeNew(size), 0, U32(0), FALSE)},
          late \in LateGenerations :
         LET seed == Unwrap(first.tree.sender_ratchets[0]).past_secrets[1]
             window ==
                 [k \in 1 .. OUT_OF_ORDER_TOLERANCE |->
                     ChainHistory(seed, 0,
                         U32Sub(late, U32(OUT_OF_ORDER_TOLERANCE - k)))]
         IN  /\ nodes = first.tree.nodes
             /\ sender_ratchets =
                    [first.tree.sender_ratchets EXCEPT
                       ![0] = Some([index |-> 0,
                                    generation |-> late,
                                    past_secrets |-> window])]
             /\ erased = {x \in DOMAIN first.tree.nodes :
                             /\ x = root(size) \/ x \in first.written
                             /\ ~IsSome(first.tree.nodes[x])}
    /\ written = {}
    /\ ncalls = 0

SpecLate == InitLate /\ [][Next]_vars

(* ------------------------------- claims ------------------------------- *)

\* The senders of the roster, and those whose ratchet is installed.
Roster == 0 .. size - 1

Installed == {i \in Roster : IsSome(sender_ratchets[i])}

Ratchet(i) == Unwrap(sender_ratchets[i])

\* The calls <<index, generation, checks>> that are made in this state.
Requests ==
    IF ncalls < MaxCalls
    THEN UNION {{<<i, g, c>> : g \in Generations(i), c \in Profiles(i)} :
                  i \in Senders}
    ELSE {}

\* The tree after the step.
\* The generations asked of a sender that are near its current one: the
\* small ones, those at the edges of its out-of-order window, the one a
\* full window and a step ahead, and beyond the forward distance the first
\* one and the last u32.
NearGenerations(index) ==
    LET current == IF index < size THEN get_generation(sender_ratchets, index)
                   ELSE U32(0)
        back == {U32(d) : d \in {OUT_OF_ORDER_TOLERANCE - 1,
                                 OUT_OF_ORDER_TOLERANCE}}
        ahead == {U32Add(current, U32(d)) :
                    d \in {OUT_OF_ORDER_TOLERANCE + 1,
                           MAXIMUM_FORWARD_DISTANCE + 1}}
    IN  {U32(g) : g \in 0 .. MaxGen}
        \cup {U32Sub(current, b) : b \in {b \in back : U32Le(b, current)}}
        \cup {a.value : a \in {a \in ahead : ~a.overflow}}
        \cup {U32Max}

\* The calls get_secret(index, generation) for those generations.
NearRequests ==
    IF ncalls < MaxCalls
    THEN UNION {{<<i, g, c>> : g \in NearGenerations(i), c \in Profiles(i)} :
                  i \in Senders}
    ELSE {}

TreeAfter ==
    [size |-> size', nodes |-> nodes', sender_ratchets |-> sender_ratchets']

\* C1: the (key, nonce) of a successful get_secret(i, g) is a function of
\* (application_secret, size, i, g) only: whatever calls the tree has served,
\* it is what a tree just constructed with the same application secret and
\* size returns for get_secret(i, g).
C1_OutputFunctionOfSenderAndGeneration ==
    \A q \in Requests :
        q[1] \in Roster =>
            \A served \in {TreeGetSecret(Tree, q[1], q[2], q[3]).ret},
               fresh \in {TreeGetSecret(ASTreeNew(size), q[1], q[2], q[3]).ret} :
                (served.kind = "Ok" /\ fresh.kind = "Ok") => served = fresh

\* The tree as ASTree::new leaves it.
Fresh ==
    /\ nodes = ASTreeNew(size).nodes
    /\ sender_ratchets = ASTreeNew(size).sender_ratchets

\* C2: on a freshly constructed tree the first call get_secret(i, g) of a
\* sender i < size succeeds if and only if g <= MAXIMUM_FORWARD_DISTANCE,
\* and returns TooDistantInTheFuture for every larger g.
C2_FreshTreeForwardBound ==
    Fresh =>
        \A i \in Roster :
            \A g \in Generations(i)
                       \cup {U32(MAXIMUM_FORWARD_DISTANCE + d) : d \in {-1, 2}} :
                \A c \in BOOLEAN :
                    TreeGetSecret(Tree, i, g, c).ret.kind =
                        IF U32Le(g, U32(MAXIMUM_FORWARD_DISTANCE))
                        THEN "Ok" ELSE "TooDistantInTheFuture"

\* A first call on a fresh tree has taken a ratchet to the largest
\* generation within reach.
C2_Witness ==
    /\ ncalls = 1
    /\ \E i \in Installed :
           Ratchet(i).generation = U32(MAXIMUM_FORWARD_DISTANCE)

\* C3: whenever a call get_secret(i, g) with g >= OUT_OF_ORDER_TOLERANCE has
\* succeeded and left the ratchet of i at generation g, then in the state
\* after it get_secret(i, g - 4) succeeds and returns the key and nonce it
\* would have returned in the state before that call, and
\* get_secret(i, g - 5) returns TooDistantInThePast.
C3_WindowAfterAdvance ==
    [][\A q \in Requests :
         \A r \in {IF q[1] \in Roster
                   THEN TreeGetSecret(Tree, q[1], q[2], q[3])
                   ELSE OutOfBounds(Tree)} :
             ( /\ q[1] \in Roster
               /\ U32Le(U32(OUT_OF_ORDER_TOLERANCE), q[2])
               /\ r.ret.kind = "Ok"
               /\ r.tree = TreeAfter
               /\ get_generation(sender_ratchets', q[1]) = q[2] )
             => \A c \in BOOLEAN :
                    /\ TreeGetSecret(
                           TreeAfter, q[1],
                           U32Sub(q[2], U32(OUT_OF_ORDER_TOLERANCE - 1)),
                           c).ret.kind = "Ok"
                    /\ TreeGetSecret(
                           TreeAfter, q[1],
                           U32Sub(q[2], U32(OUT_OF_ORDER_TOLERANCE - 1)),
                           c).ret
                         = TreeGetSecret(
                               Tree, q[1],
                               U32Sub(q[2], U32(OUT_OF_ORDER_TOLERANCE - 1)),
                               c).ret
                    /\ TreeGetSecret(
                           TreeAfter, q[1],
                           U32Sub(q[2], U32(OUT_OF_ORDER_TOLERANCE)),
                           c).ret.kind = "TooDistantInThePast"]_vars

\* C4: in every state, get_secret(sender, generation) with sender >= size
\* returns IndexOutOfBounds and leaves nodes and sender_ratchets unchanged.
C4_IndexOutOfBounds ==
    \A index \in {size, size + 1} :
        \A g \in Generations(index), c \in BOOLEAN :
            \A r \in {TreeGetSecret(Tree, index, g, c)} :
                /\ r.ret = Err("IndexOutOfBounds")
                /\ r.tree.nodes = nodes
                /\ r.tree.sender_ratchets = sender_ratchets

\* A call has been made and the tree is as ASTree::new left it: a call for
\* a sender of the roster installs its ratchet, so the call was for a sender
\* beyond the roster.
C4_Witness ==
    /\ ncalls = 1
    /\ Fresh

\* C5: once the first get_secret(i, g) of leaf i has returned (the ratchet
\* of i is installed), every node slot on the path from the root to leaf i,
\* both included, is empty, in that state and in every later one.
C5_PathErased ==
    \A i \in Installed :
        \A x \in {DirPath(size, TreeIndexFrom(i))[k] :
                    k \in 1 .. Len(DirPath(size, TreeIndexFrom(i)))} :
            ~IsSome(nodes[x])

\* A leaf with an ancestor between it and the root has been served, and
\* other nodes of the tree are live.
C5_Witness ==
    \E i \in Installed :
        /\ Len(DirPath(size, TreeIndexFrom(i))) >= 3
        /\ \E x \in DOMAIN nodes : IsSome(nodes[x])
        /\ ncalls >= 2

\* The generation of a chain secret: the number of ratchet steps between the
\* leaf's secret and it.
RECURSIVE ChainGeneration(_)
ChainGeneration(secret) ==
    IF secret = <<>> THEN U32(0)
    ELSE LET step == secret[Len(secret)]
             before == ChainGeneration(SubSeq(secret, 1, Len(secret) - 1))
         IN  IF step[1] = "app-secret"
             THEN U32Add(before, U32(step[4])).value
             ELSE IF step[1] = "app-secret-history" THEN step[3]
             ELSE before

\* The node whose secret a secret was derived from by ratchet steps only.
ChainNode(secret) ==
    LET tree_steps == SelectSeq(secret, LAMBDA step : step[1] = "tree")
    IN  IF tree_steps = <<>> THEN root(size)
        ELSE tree_steps[Len(tree_steps)][2]

\* Every secret the tree holds: in its node slots and in its ratchets.
HeldSecrets ==
    {Unwrap(nodes[x]) : x \in {y \in DOMAIN nodes : IsSome(nodes[y])}}
        \cup UNION {{Ratchet(i).past_secrets[k] :
                        k \in 1 .. Len(Ratchet(i).past_secrets)} :
                    i \in Installed}

\* The window of sender i holds, in order, the chain secrets of the
\* generations that end at the ratchet's generation.
WindowInOrder(i) ==
    LET past_secrets == Ratchet(i).past_secrets
    IN  /\ Len(past_secrets) >= 1
        /\ Len(past_secrets) <= OUT_OF_ORDER_TOLERANCE
        /\ U32Le(U32(Len(past_secrets) - 1), Ratchet(i).generation)
        /\ \A k \in 1 .. Len(past_secrets) :
               /\ ChainNode(past_secrets[k]) = TreeIndexFrom(i)
               /\ ChainGeneration(past_secrets[k]) =
                      U32Sub(Ratchet(i).generation,
                             U32(Len(past_secrets) - k))

\* C6: for every installed ratchet i at generation g', past_secrets holds
\* chain secrets only for the generations g' - OUT_OF_ORDER_TOLERANCE + 1
\* to g' (from 0 when g' is smaller), and the tree holds no chain secret of
\* sender i for an older generation, in a node slot or in a ratchet.
C6_WindowForwardSecrecy ==
    \A i \in Installed :
        /\ WindowInOrder(i)
        /\ \A secret \in HeldSecrets :
               ChainNode(secret) = TreeIndexFrom(i) =>
                   /\ U32Le(ChainGeneration(secret), Ratchet(i).generation)
                   /\ U32Nat(U32Sub(Ratchet(i).generation,
                                    ChainGeneration(secret)))
                          < OUT_OF_ORDER_TOLERANCE

\* A ratchet has advanced twice, past a full window, while another leaf
\* of the tree has been served too.
C6_Witness ==
    \E i \in Installed :
        /\ U32Lt(U32(MAXIMUM_FORWARD_DISTANCE), Ratchet(i).generation)
        /\ Len(Ratchet(i).past_secrets) = OUT_OF_ORDER_TOLERANCE
        /\ Installed # {i}

\* The generations the window of an installed ratchet i keeps: the current
\* one and the OUT_OF_ORDER_TOLERANCE - 1 before it, from 0.
InWindow(i) ==
    {U32Sub(Ratchet(i).generation, U32(d)) :
        d \in {e \in 0 .. OUT_OF_ORDER_TOLERANCE - 1 :
                 U32Le(U32(e), Ratchet(i).generation)}}

\* C7: for an installed ratchet at generation c and every generation g' of
\* its window (g' <= c, c - g' < 5), two calls get_secret(i, g') in a row
\* both succeed with the same key and nonce, and neither changes the
\* ratchet's generation or past_secrets.
C7_IdempotentLookup ==
    \A i \in Installed :
        \A g \in InWindow(i), c \in BOOLEAN :
            \A once \in {TreeGetSecret(Tree, i, g, c)} :
                \A twice \in {TreeGetSecret(once.tree, i, g, c)} :
                    /\ once.ret.kind = "Ok"
                    /\ twice.ret = once.ret
                    /\ once.tree.sender_ratchets[i] = sender_ratchets[i]
                    /\ twice.tree.sender_ratchets[i] = sender_ratchets[i]

\* C8: across every call, get_generation(i) of every sender i < size does
\* not decrease, and where it changes, the call was a successful
\* get_secret(i, g) with g greater than the generation before, and the
\* generation is g after it.
C8_MonotonicGeneration ==
    [][\A i \in Roster :
         \A old \in {get_generation(sender_ratchets, i)},
            new \in {get_generation(sender_ratchets', i)} :
             /\ U32Le(old, new)
             /\ old # new =>
                    /\ U32Lt(old, new)
                    /\ \E c \in Profiles(i) :
                         \E r \in {TreeGetSecret(Tree, i, new, c)} :
                             /\ r.tree = TreeAfter
                             /\ r.ret.kind = "Ok"]_vars

\* All the calls have been made, and a ratchet has moved beyond the reach
\* of its first call, by fewer than two times that distance.
C8_Witness ==
    /\ ncalls = MaxCalls
    /\ \E i \in Installed :
           /\ U32Lt(U32(MAXIMUM_FORWARD_DISTANCE), Ratchet(i).generation)
           /\ U32Lt(Ratchet(i).generation,
                    U32(2 * MAXIMUM_FORWARD_DISTANCE))

\* C9: a node slot that has gone from live to erased is not assigned a
\* secret by any later call, and is empty after every later call.
C9_ErasedNeverRepopulated ==
    [][\A x \in erased : x \notin written' /\ ~IsSome(nodes'[x])]_vars

\* Slots have been erased by the first call of one leaf, and the first call
\* of another leaf has then derived secrets into other slots.
C9_Witness ==
    /\ written # {}
    /\ erased \ written # {}
    /\ \E i, j \in Installed : i # j

\* C10: for an installed ratchet, a call that returns TooDistantInTheFuture
\* or TooDistantInThePast leaves the ratchet (generation and past_secrets)
\* as it was, and a call that changes the ratchet is a successful one for a
\* generation greater than the current one.
C10_ErrorsLeaveRatchet ==
    \A q \in NearRequests :
        q[1] \in Installed =>
            \A r \in {TreeGetSecret(Tree, q[1], q[2], q[3])} :
                /\ r.ret.kind \in {"TooDistantInTheFuture",
                                   "TooDistantInThePast"}
                       => r.tree.sender_ratchets[q[1]]
                              = sender_ratchets[q[1]]
                /\ r.tree.sender_ratchets[q[1]] # sender_ratchets[q[1]]
                       => /\ r.ret.kind = "Ok"
                          /\ U32Lt(Ratchet(q[1]).generation, q[2])

\* An installed ratchet is asked for a generation too far ahead, and for one
\* too far behind, and for one that advances it.
C10_Witness ==
    \E i \in Installed :
        /\ \E q \in NearRequests :
               /\ q[1] = i
               /\ TreeGetSecret(Tree, i, q[2], q[3]).ret.kind
                      = "TooDistantInTheFuture"
        /\ \E q \in NearRequests :
               /\ q[1] = i
               /\ TreeGetSecret(Tree, i, q[2], q[3]).ret.kind
                      = "TooDistantInThePast"
        /\ \E q \in NearRequests :
               /\ q[1] = i
               /\ TreeGetSecret(Tree, i, q[2], q[3]).tree.sender_ratchets[i]
                      # sender_ratchets[i]


\* The secret of node x of a tree of n leaves: the application secret at the
\* root, and below it the secret derived from the parent's with label "tree"
\* and the node's index.
RECURSIVE NodeSecret(_, _)
NodeSecret(x, n) ==
    IF x = root(n) THEN application_secret
    ELSE derive_app_secret(NodeSecret(parent(x, n), n), "tree", x, U32(0))

\* The secret a chain secret was derived from by ratchet steps: its seed.
ChainSeed(secret) == SelectSeq(secret, LAMBDA step : step[1] = "tree")

\* C11: whatever leaves have been touched before and in whatever order, the
\* seed of every installed ratchet i is the secret of leaf i, a function of
\* the application secret, the size and i only, and the first call of a
\* sender not yet served returns what it returns on a fresh tree.
C11_CrossLeafIndependence ==
    /\ \A i \in Installed :
           \A k \in 1 .. Len(Ratchet(i).past_secrets) :
               ChainSeed(Ratchet(i).past_secrets[k])
                   = NodeSecret(TreeIndexFrom(i), size)
    /\ \A q \in NearRequests :
           q[1] \in Roster \ Installed =>
               TreeGetSecret(Tree, q[1], q[2], q[3]).ret
                   = TreeGetSecret(ASTreeNew(size), q[1], q[2], q[3]).ret

\* All the leaves of a tree of three or more have been touched, one after
\* the other.
C11_Witness ==
    /\ size >= 3
    /\ Installed = Roster


\* The live slots of a node array.
Live(tree_nodes) == {x \in DOMAIN tree_nodes : IsSome(tree_nodes[x])}

\* The nodes of the path from leaf x to the root of a tree of n leaves.
PathNodes(x, n) == {DirPath(n, x)[k] : k \in 1 .. Len(DirPath(n, x))}

\* The copath of leaf x: the nodes off the path whose parent is on it.
Copath(x, n) ==
    {y \in 0 .. node_width(n) - 1 :
        /\ y # root(n)
        /\ y \notin PathNodes(x, n)
        /\ parent(y, n) \in PathNodes(x, n)}

\* C12: when one leaf i has been served and no other, the live node slots
\* are exactly the nodes of the copath of leaf i.  For size 4 and leaf 0:
\* the root, the ancestor between and leaf 0 are empty, the root's other
\* child is live and its two leaves are empty.
C12_LazyExpansionShape ==
    /\ \A i \in Roster :
           Installed = {i} => Live(nodes) = Copath(TreeIndexFrom(i), size)
    /\ \A g \in {U32(0), U32(OUT_OF_ORDER_TOLERANCE)} :
           \A after \in {TreeGetSecret(ASTreeNew(4), 0, g, FALSE).tree.nodes} :
               /\ Live(after) = {right(1, 4), right(root(4), 4)}
               /\ {0, parent(0, 4), root(4)} \cap Live(after) = {}
               /\ {left(right(root(4), 4)), right(right(root(4), 4), 4)}
                      \cap Live(after) = {}

\* One leaf of the largest tree has been served, and no other leaf.
C12_Witness ==
    /\ size = MaxSize
    /\ Cardinality(Installed) = 1
    /\ Cardinality(Live(nodes)) >= 2


(* -------------------------------- Codec -------------------------------- *)

\* An encoded buffer is a sequence of fields <<kind, value>>: integers of
\* one, two and four bytes in network byte order, and the bytes of a secret.
ciphersuite == "MLS10_128_HPKEX25519_CHACHA20POLY1305_SHA256_Ed25519"

\* The length of a secret in bytes: the hash length of the ciphersuite.
hash_length == 32

ByteSize(field) ==
    CASE field[1] = "u8" -> 1
      [] field[1] = "u16" -> 2
      [] field[1] = "u32" -> 4
      [] field[1] = "bytes" -> hash_length

RECURSIVE BufferSize(_)
BufferSize(buffer) ==
    IF buffer = <<>> THEN 0
    ELSE ByteSize(Head(buffer)) + BufferSize(Tail(buffer))

\* The result of a decode: the value and the cursor after it, or an error.
Decoded(value, cursor) == [ok |-> TRUE, value |-> <<value>>, rest |-> cursor]
CodecError == [ok |-> FALSE, value |-> <<>>, rest |-> <<>>]

encode_u8(v) == << <<"u8", v>> >>
encode_u32(v) == << <<"u32", v>> >>
encode_ciphersuite(c) == << <<"u16", c>> >>

\* An integer or a ciphersuite is read from the cursor.
decode_field(kind, cursor) ==
    IF cursor # <<>> /\ Head(cursor)[1] = kind
    THEN Decoded(Head(cursor)[2], Tail(cursor))
    ELSE CodecError

\* encode_vec(VecSize::VecU8, ..): one byte of length, then the bytes.
encode_vec_u8(bytes) == encode_u8(hash_length) \o << <<"bytes", bytes>> >>

\* decode_vec(VecSize::VecU8, ..)
decode_vec_u8(cursor) ==
    LET length == decode_field("u8", cursor)
    IN  IF ~length.ok THEN CodecError
        ELSE IF /\ length.rest # <<>>
                /\ Head(length.rest)[1] = "bytes"
                /\ ByteSize(Head(length.rest)) = length.value[1]
        THEN Decoded(Head(length.rest)[2], Tail(length.rest))
        ELSE CodecError

\* encode_vec(VecSize::VecU32, ..): four bytes of length in bytes, then the
\* encoded elements.
encode_vec_u32(body) == encode_u32(U32(BufferSize(body))) \o body

\* The fields of the cursor that make up the first `length` bytes.
RECURSIVE TakeBytes(_, _)
TakeBytes(cursor, length) ==
    IF length <= 0 \/ cursor = <<>> THEN <<>>
    ELSE <<Head(cursor)>>
            \o TakeBytes(Tail(cursor), length - ByteSize(Head(cursor)))

\* decode_vec(VecSize::VecU32, ..), up to the elements: the encoded elements
\* and the cursor after them.
decode_vec_u32(cursor) ==
    LET length == decode_field("u32", cursor)
        body == TakeBytes(length.rest, U32Nat(length.value[1]))
    IN  IF ~length.ok THEN CodecError
        ELSE IF BufferSize(body) # U32Nat(length.value[1]) THEN CodecError
        ELSE Decoded(body, SubSeq(length.rest, Len(body) + 1,
                                  Len(length.rest)))

\* ASTreeNode::encode, ASTreeNode::decode
EncodeASTreeNode(secret) == encode_vec_u8(secret)
DecodeASTreeNode(cursor) == decode_vec_u8(cursor)

\* SenderRatchet::encode
EncodeSenderRatchet(self) ==
    LET RECURSIVE secrets(_)
        secrets(i) ==
            IF i > Len(self.past_secrets) THEN <<>>
            ELSE encode_vec_u8(self.past_secrets[i]) \o secrets(i + 1)
    IN  encode_ciphersuite(ciphersuite)
            \o encode_u32(U32(self.index))
            \o encode_u32(self.generation)
            \o encode_u32(U32(Len(self.past_secrets)))
            \o secrets(1)

\* The loop of SenderRatchet::decode: len secrets are read.
RECURSIVE decode_past_secrets(_, _)
decode_past_secrets(cursor, len) ==
    IF len = 0 THEN Decoded(<<>>, cursor)
    ELSE LET secret == decode_vec_u8(cursor)
             others == decode_past_secrets(secret.rest, len - 1)
         IN  IF ~secret.ok THEN CodecError
             ELSE IF ~others.ok THEN CodecError
             ELSE Decoded(<<secret.value[1]>> \o others.value[1],
                          others.rest)

\* Mutant of DecodeSenderRatchet: the generation is read before the index.
DecodeSenderRatchet_Swapped(cursor) ==
    LET suite == decode_field("u16", cursor)
        generation == decode_field("u32", suite.rest)
        index == decode_field("u32", generation.rest)
        len == decode_field("u32", index.rest)
        past_secrets == decode_past_secrets(len.rest, U32Nat(len.value[1]))
    IN  IF ~suite.ok THEN CodecError
        ELSE IF ~generation.ok THEN CodecError
        ELSE IF ~index.ok THEN CodecError
        ELSE IF ~len.ok THEN CodecError
        ELSE IF ~past_secrets.ok THEN CodecError
        ELSE Decoded([ciphersuite |-> suite.value[1],
                      index |-> U32Nat(index.value[1]),
                      generation |-> generation.value[1],
                      past_secrets |-> past_secrets.value[1]],
                     past_secrets.rest)

\* SenderRatchet::decode
DecodeSenderRatchet(cursor) ==
    LET suite == decode_field("u16", cursor)
        index == decode_field("u32", suite.rest)
        generation == decode_field("u32", index.rest)
        len == decode_field("u32", generation.rest)
        past_secrets == decode_past_secrets(len.rest, U32Nat(len.value[1]))
    IN  IF ~suite.ok THEN CodecError
        ELSE IF ~index.ok THEN CodecError
        ELSE IF ~generation.ok THEN CodecError
        ELSE IF ~len.ok THEN CodecError
        ELSE IF ~past_secrets.ok THEN CodecError
        ELSE Decoded([ciphersuite |-> suite.value[1],
                      index |-> U32Nat(index.value[1]),
                      generation |-> generation.value[1],
                      past_secrets |-> past_secrets.value[1]],
                     past_secrets.rest)

\* Option<ASTreeNode>::encode and Option<SenderRatchet>::encode: one byte,
\* 0 for None and 1 for Some, then the value.
EncodeOptionNode(option) ==
    IF IsSome(option) THEN encode_u8(1) \o EncodeASTreeNode(Unwrap(option))
    ELSE encode_u8(0)

EncodeOptionRatchet(option) ==
    IF IsSome(option) THEN encode_u8(1) \o EncodeSenderRatchet(Unwrap(option))
    ELSE encode_u8(0)

\* Option<T>::decode, given the decoding of the value that follows a 1.
DecodeOption(present, body) ==
    IF ~present.ok THEN CodecError
    ELSE IF present.value[1] = 0 THEN Decoded(None, present.rest)
    ELSE IF present.value[1] # 1 THEN CodecError
    ELSE IF ~body.ok THEN CodecError
    ELSE Decoded(Some(body.value[1]), body.rest)

DecodeOptionNode(cursor) ==
    DecodeOption(decode_field("u8", cursor),
                 DecodeASTreeNode(decode_field("u8", cursor).rest))

DecodeOptionRatchet(cursor) ==
    DecodeOption(decode_field("u8", cursor),
                 DecodeSenderRatchet(decode_field("u8", cursor).rest))

\* The elements of a Vec<Option<ASTreeNode>> are read until the cursor is
\* at its end.
RECURSIVE decode_nodes(_)
decode_nodes(cursor) ==
    IF cursor = <<>> THEN Decoded(<<>>, <<>>)
    ELSE LET node == DecodeOptionNode(cursor)
             others == decode_nodes(node.rest)
         IN  IF ~node.ok THEN CodecError
             ELSE IF ~others.ok THEN CodecError
             ELSE Decoded(<<node.value[1]>> \o others.value[1], <<>>)

\* The elements of a Vec<Option<SenderRatchet>> are read until the cursor
\* is at its end.
RECURSIVE decode_ratchets(_)
decode_ratchets(cursor) ==
    IF cursor = <<>> THEN Decoded(<<>>, <<>>)
    ELSE LET ratchet == DecodeOptionRatchet(cursor)
             others == decode_ratchets(ratchet.rest)
         IN  IF ~ratchet.ok THEN CodecError
             ELSE IF ~others.ok THEN CodecError
             ELSE Decoded(<<ratchet.value[1]>> \o others.value[1], <<>>)

\* A Vec as the model keeps it (a function from 0) and as a sequence.
VecToSeq(vec) == [k \in 1 .. Cardinality(DOMAIN vec) |-> vec[k - 1]]
SeqToVec(seq) == [x \in 0 .. Len(seq) - 1 |-> seq[x + 1]]

\* The encoded elements of a Vec<Option<ASTreeNode>>, one after the other.
RECURSIVE encode_nodes(_)
encode_nodes(seq) ==
    IF seq = <<>> THEN <<>>
    ELSE EncodeOptionNode(Head(seq)) \o encode_nodes(Tail(seq))

\* The encoded elements of a Vec<Option<SenderRatchet>>.
RECURSIVE encode_ratchets(_)
encode_ratchets(seq) ==
    IF seq = <<>> THEN <<>>
    ELSE EncodeOptionRatchet(Head(seq))
            \o encode_ratchets(Tail(seq))

\* ASTree::encode
EncodeASTree(tree) ==
    encode_ciphersuite(ciphersuite)
        \o encode_vec_u32(encode_nodes(VecToSeq(tree.nodes)))
        \o encode_vec_u32(encode_ratchets(VecToSeq(tree.sender_ratchets)))
        \o encode_u32(U32(tree.size))

\* ASTree::decode
DecodeASTree(cursor) ==
    LET suite == decode_field("u16", cursor)
        node_bytes == decode_vec_u32(suite.rest)
        tree_nodes == decode_nodes(node_bytes.value[1])
        ratchet_bytes == decode_vec_u32(node_bytes.rest)
        ratchets == decode_ratchets(ratchet_bytes.value[1])
        tree_size == decode_field("u32", ratchet_bytes.rest)
    IN  IF ~suite.ok THEN CodecError
        ELSE IF ~node_bytes.ok THEN CodecError
        ELSE IF ~tree_nodes.ok THEN CodecError
        ELSE IF ~ratchet_bytes.ok THEN CodecError
        ELSE IF ~ratchets.ok THEN CodecError
        ELSE IF ~tree_size.ok THEN CodecError
        ELSE Decoded([ciphersuite |-> suite.value[1],
                      nodes |-> SeqToVec(tree_nodes.value[1]),
                      sender_ratchets |-> SeqToVec(ratchets.value[1]),
                      size |-> U32Nat(tree_size.value[1])],
                     tree_size.rest)

\* The tree with the ciphersuite it and each of its ratchets were made with.
Persisted(tree) ==
    [ciphersuite |-> ciphersuite,
     nodes |-> tree.nodes,
     sender_ratchets |->
         [i \in DOMAIN tree.sender_ratchets |->
             IF IsSome(tree.sender_ratchets[i])
             THEN Some([ciphersuite |-> ciphersuite,
                        index |-> Unwrap(tree.sender_ratchets[i]).index,
                        generation |->
                            Unwrap(tree.sender_ratchets[i]).generation,
                        past_secrets |->
                            Unwrap(tree.sender_ratchets[i]).past_secrets])
             ELSE None],
     size |-> tree.size]

\* C13: in every reachable state, decoding the encoding of the tree reads
\* all of the buffer and yields the tree: the same ciphersuite, size, node
\* slots (the erased ones too) and ratchet slots (index, generation and
\* past_secrets in order).
C13_RoundTripEncoding ==
    DecodeASTree(EncodeASTree(Tree)) = Decoded(Persisted(Tree), <<>>)

\* A tree with live and erased node slots, a ratchet with a full window and
\* a sender without a ratchet.
C13_Witness ==
    /\ Live(nodes) # {}
    /\ erased # {}
    /\ Installed # Roster
    /\ \E i \in Installed :
           /\ Len(Ratchet(i).past_secrets) = OUT_OF_ORDER_TOLERANCE
           /\ i > 0


\* The secret that count chain steps with label "app-secret" and context
\* (index, generation) lead to from a secret.
ChainSteps(secret, index, generation, count) ==
    IF count = 0 THEN secret
    ELSE IF /\ secret # <<>>
            /\ secret[Len(secret)][1] = "app-secret"
            /\ secret[Len(secret)][2] = index
            /\ secret[Len(secret)][3] = generation
    THEN [secret EXCEPT ![Len(secret)][4] = @ + count]
    ELSE Append(secret, <<"app-secret", index, generation, count>>)

\* The last chain secret of sender i: of its ratchet, or its leaf's secret
\* when the ratchet is still to be made.
LastSecret(i) ==
    IF i \in Installed
    THEN Ratchet(i).past_secrets[Len(Ratchet(i).past_secrets)]
    ELSE NodeSecret(TreeIndexFrom(i), size)

\* C14: a call get_secret(i, requested) that advances the ratchet from
\* generation c to requested > c derives each of the requested - c chain
\* secrets with label "app-secret" and context (i, c), derives the key and
\* the nonce from the last of them with context (i, requested), and leaves
\* the ratchet at generation requested.
C14_ChainStepContext ==
    \A q \in NearRequests :
        (q[1] \in Roster /\ U32Lt(get_generation(sender_ratchets, q[1]), q[2]))
        => \A r \in {TreeGetSecret(Tree, q[1], q[2], q[3])},
              c \in {get_generation(sender_ratchets, q[1])},
              last \in {LastSecret(q[1])} :
               r.ret.kind = "Ok" =>
                   \A after \in {Unwrap(r.tree.sender_ratchets[q[1]])},
                      n \in {U32Nat(U32Sub(q[2], c))} :
                       /\ after.generation = q[2]
                       /\ \A d \in 0 .. Len(after.past_secrets) - 1 :
                              d < n =>
                                  after.past_secrets[
                                      Len(after.past_secrets) - d]
                                    = ChainSteps(last, q[1], c, n - d)
                       /\ r.ret.key =
                              derive_app_secret(
                                  ChainSteps(last, q[1], c, n),
                                  "app-key", q[1], q[2])
                       /\ r.ret.nonce =
                              derive_app_secret(
                                  ChainSteps(last, q[1], c, n),
                                  "app-nonce", q[1], q[2])

\* A ratchet has advanced from a generation other than 0, and can advance
\* again.
C14_Witness ==
    /\ ncalls < MaxCalls
    /\ \E i \in Installed :
           \E k \in 1 .. Len(LastSecret(i)) :
               /\ LastSecret(i)[k][1] = "app-secret"
               /\ LastSecret(i)[k][3] # U32(0)


\* The steps of ASTree::hash_down on a node, in the order of its statements:
\* the secrets of the two children are derived, then the node is erased.
hash_down_events(n, index_in_tree) ==
    << <<"derive", left(index_in_tree)>>,
       <<"derive", right(index_in_tree, n)>>,
       <<"erase", index_in_tree>> >>

\* for n in empty_nodes { self.hash_down(n) }, as steps.
RECURSIVE walk_events(_, _)
walk_events(n, empty_nodes) ==
    IF empty_nodes = <<>> THEN <<>>
    ELSE hash_down_events(n, Head(empty_nodes))
            \o walk_events(n, Tail(empty_nodes))

\* The steps of the path materialization of a first call for a leaf.
MaterializeEvents(tree_nodes, n, index_in_tree) ==
    walk_events(n, Reverse(Tail(scan_path(tree_nodes,
                                          DirPath(n, index_in_tree)))))

\* C15: in the first call for a sender, every derivation of a child secret
\* of the walk comes before every erasure of a node slot.
C15_DeriveThenErase ==
    \A i \in Roster \ Installed :
        \A events \in {MaterializeEvents(nodes, size, TreeIndexFrom(i))} :
            \A a, b \in 1 .. Len(events) :
                (a < b /\ events[a][1] = "erase") => events[b][1] # "derive"


\* The number of iterations of the loop of the advance branch in a call of
\* SenderRatchet::get_secret.
ChainStepCount(self, generation, checks) ==
    IF ForwardLimit(self).overflow /\ checks THEN 0
    ELSE IF TooDistantInTheFuture(self, generation) THEN 0
    ELSE IF TooDistantInThePast(self, generation) THEN 0
    ELSE IF U32Le(generation, self.generation) THEN 0
    ELSE U32Nat(U32Sub(generation, self.generation))

\* The number of calls of hash_down in the first call for a leaf.
HashDownCount(tree_nodes, n, index_in_tree) ==
    Len(Tail(scan_path(tree_nodes, DirPath(n, index_in_tree))))

\* The least k with 2^k >= n.
RECURSIVE CeilLog2(_)
CeilLog2(n) == IF n <= 1 THEN 0 ELSE 1 + CeilLog2((n + 1) \div 2)

\* The work of the call get_secret(i, generation) in the current state.
Work(i, generation, checks) ==
    IF i \in Installed
    THEN [chain_steps |-> ChainStepCount(Ratchet(i), generation, checks),
          hash_downs |-> 0]
    ELSE [chain_steps |->
              ChainStepCount(
                  SenderRatchetNew(i, NodeSecret(TreeIndexFrom(i), size)),
                  generation, checks),
          hash_downs |-> HashDownCount(nodes, size, TreeIndexFrom(i))]

\* C16: in every reachable state, for trees of every size, a call of
\* get_secret returns after at most MAXIMUM_FORWARD_DISTANCE chain steps and
\* at most ceil(log2(size)) calls of hash_down.
C16_BoundedWork ==
    \A q \in Requests :
        q[1] \in Roster =>
            \A r \in {TreeGetSecret(Tree, q[1], q[2], q[3])},
               work \in {Work(q[1], q[2], q[3])} :
                /\ r.ret.kind \in {"Ok", "TooDistantInTheFuture",
                                   "TooDistantInThePast", "Panic"}
                /\ work.chain_steps <= MAXIMUM_FORWARD_DISTANCE
                /\ work.hash_downs <= CeilLog2(size)
                /\ r.ret.kind = "Ok" =>
                       \A after \in {Unwrap(r.tree.sender_ratchets[q[1]])} :
                           U32Sub(ChainGeneration(
                                      after.past_secrets[
                                          Len(after.past_secrets)]),
                                  ChainGeneration(LastSecret(q[1])))
                               = U32(work.chain_steps)

\* A ratchet has advanced twice by the largest distance, in a tree where
\* the first call of another leaf is to walk down from a live ancestor.
C16_Witness ==
    /\ ncalls < MaxCalls
    /\ \E i \in Installed :
           Ratchet(i).generation = U32(2 * MAXIMUM_FORWARD_DISTANCE)
    /\ \E j \in Roster \ Installed :
           HashDownCount(nodes, size, TreeIndexFrom(j)) >= 1


\* C17: for an installed ratchet at generation c and every requested u32 r
\* with c < r: when r - c <= MAXIMUM_FORWARD_DISTANCE the call succeeds,
\* makes r - c chain steps and leaves the ratchet at generation r, and when
\* r - c > MAXIMUM_FORWARD_DISTANCE it returns TooDistantInTheFuture.
C17_ForwardAdvanceWholeRange ==
    \A i \in Installed :
        \A r \in Generations(i), checks \in BOOLEAN :
            U32Lt(Ratchet(i).generation, r) =>
                \A call \in {TreeGetSecret(Tree, i, r, checks)} :
                    IF U32Le(U32Sub(r, Ratchet(i).generation),
                             U32(MAXIMUM_FORWARD_DISTANCE))
                    THEN /\ call.ret.kind = "Ok"
                         /\ Unwrap(call.tree.sender_ratchets[i]).generation
                                = r
                         /\ U32(ChainStepCount(Ratchet(i), r, checks))
                                = U32Sub(r, Ratchet(i).generation)
                    ELSE call.ret.kind = "TooDistantInTheFuture"


\* C18: in every reachable state every installed ratchet has between 1 and
\* OUT_OF_ORDER_TOLERANCE past secrets and a generation of at least their
\* number less one, the entry k positions from the end is the chain secret
\* of generation - k, and for every requested generation that passes the
\* past and future checks and is not beyond the current one, the window
\* index is a position of past_secrets.
C18_RatchetWindow ==
    \A i \in Installed :
        /\ WindowInOrder(i)
        /\ \A requested \in InWindow(i) :
               /\ ~TooDistantInThePast(Ratchet(i), requested)
               /\ WindowLookup(Ratchet(i), requested).ret.kind = "Ok"
        /\ \A requested \in Generations(i) :
               ( /\ U32Le(requested, Ratchet(i).generation)
                 /\ ~TooDistantInThePast(Ratchet(i), requested)
                 /\ ~TooDistantInTheFuture(Ratchet(i), requested) )
               => WindowLookup(Ratchet(i), requested).ret.kind = "Ok"

\* One ratchet has a full window and another one a window that is still
\* filling.
C18_Witness ==
    \E i, j \in Installed :
        /\ Len(Ratchet(i).past_secrets) = OUT_OF_ORDER_TOLERANCE
        /\ Len(Ratchet(j).past_secrets) > 1
        /\ Len(Ratchet(j).past_secrets) < OUT_OF_ORDER_TOLERANCE


\* C19: a call of ASTree::get_secret that returns IndexOutOfBounds,
\* TooDistantInTheFuture or TooDistantInThePast leaves every node slot and
\* every ratchet slot as it was, also when it is the first call for its
\* sender.
C19_ErrorsLeaveTree ==
    \A q \in Requests :
        \A r \in {TreeGetSecret(Tree, q[1], q[2], q[3])} :
            r.ret.kind \in {"IndexOutOfBounds", "TooDistantInTheFuture",
                            "TooDistantInThePast"}
                => /\ r.tree.nodes = nodes
                   /\ r.tree.sender_ratchets = sender_ratchets


\* The live nodes of the path from leaf i to the root.
LiveOnPath(i) == PathNodes(TreeIndexFrom(i), size) \cap Live(nodes)

\* C20: in every reachable state a leaf without a ratchet has exactly one
\* live node on its path to the root (both included) and a leaf with a
\* ratchet has none; the scan of a first call stops at a live node, no
\* hash_down is called on an empty node, and the leaf is live when the
\* ratchet is seeded.
C20_LiveAncestorPartition ==
    \A i \in Roster :
        IF i \in Installed THEN LiveOnPath(i) = {}
        ELSE /\ Cardinality(LiveOnPath(i)) = 1
             /\ \A empty_nodes \in {scan_path(nodes,
                                              DirPath(size,
                                                      TreeIndexFrom(i)))} :
                    IsSome(nodes[empty_nodes[Len(empty_nodes)]])
             /\ \A h \in {MaterializePath(nodes, size, TreeIndexFrom(i))} :
                    /\ ~h.panic
                    /\ IsSome(h.nodes[TreeIndexFrom(i)])

\* A leaf has been served, and the live node on the path of a leaf still
\* to be served is neither the root nor that leaf.
C20_Witness ==
    /\ Installed # {}
    /\ \E j \in Roster \ Installed :
           /\ root(size) \notin LiveOnPath(j)
           /\ TreeIndexFrom(j) \notin LiveOnPath(j)

====
